---- MODULE Spec2Model ----
(***************************************************************************)
(* Model of tgpl_xkcd: the index builder of package xkcd (GetIndex,        *)
(* GetInfo and the three store functions) and the query engine of          *)
(* xkcd_ops.go (searchIndex, getRefs, sortMap, intersection, returnData).  *)
(*                                                                         *)
(* The persistent state is the two buckets of xkcd_index.db ("main": term  *)
(* -> packed 2-byte IDs, "data": 2-byte ID -> encoded LogData) and the     *)
(* single key of log.db.  The model keeps the projection of that state on  *)
(* the terms of Terms and on the document IDs from Base upward: a run that *)
(* starts at cursor Base neither reads nor writes a document below it.     *)
(***************************************************************************)
EXTENDS Integers, Sequences, FiniteSets, TLC

\* ------------------------------------------------------------------ bounds

\* Number of IDs above Base the frontier can reach.
Span == 2
\* Number of build runs (process executions with -u) in one behaviour.
MaxRuns == 2
\* Largest document ID in the lists drawn for the query-only specification.
MaxDoc == 3
\* Number of symbols (words and spaces) in a query line, the newline apart.
MaxText == 5
\* Length of the ID lists drawn for the encoders.
MaxLen == 3

\* ------------------------------------------------------- program constants

\* if i == 404 { Index++; continue }
ReservedID == 404

\* binary.BigEndian.PutUint16(b, uint16(i)): IDs are stored modulo 2^16.
Uint16 == 256 * 256

\* Terms whose postings the model follows.  "zzz" occurs in no document of
\* the source that the builder reads (PayloadTerms).
Terms == {"comic", "boy", "zzz"}

\* The two places a store can be at when the behaviour starts: empty
\* storage (Base 1), or storage left by earlier successful runs that
\* stopped one document before the reserved ID.
Bases == {1, ReservedID - 1}

\* ------------------------------------------------------------- encodings

\* binary.BigEndian.PutUint16; ItobLittleEndian has the bytes swapped.
ItobLittleEndian(i) == << i % 256, (i % Uint16) \div 256 >>

Itob(i) == << (i % Uint16) \div 256, i % 256 >>

Btoi(b) == b[1] * 256 + b[2]

RECURSIVE Istobs(_)
Istobs(s) == IF s = << >> THEN << >> ELSE Itob(Head(s)) \o Istobs(Tail(s))

\* for i := 0; i < len(bs); i += 2 { is = append(is, Uint16(bs[i:])) }
RECURSIVE Bstois(_)
Bstois(bs) == IF Len(bs) = 0 THEN << >>
              ELSE << Btoi(SubSeq(bs, 1, 2)) >> \o Bstois(SubSeq(bs, 3, Len(bs)))

Range(s) == { s[k] : k \in 1..Len(s) }

\* ------------------------------------------------------------- the source

\* The indexable text of document id, already formatted by formatEntry, as
\* the sequence of words bufio.ScanWords yields.
PayloadTerms(id) == IF id % 2 = 1 THEN << "comic", "boy", "comic" >> ELSE << "comic" >>

\* json.Unmarshal of a well-formed payload into LogData, projected on the
\* fields the model follows.  Link is empty in the payload.
Unmarshal(id) == [Num |-> id, Link |-> 0, Text |-> PayloadTerms(id)]

\* ---------------------------------------------------------------- state

VARIABLES
    \* xkcd_index.db: the "main" bucket (inverted index) and the "data" bucket.
    \* A term with no key has the empty value (b.Get returns nil for it).
    mainBucket, mainKV, dataBucket, dataKV,
    \* log.db: "absent" (no file), "empty" (file without the "log" bucket),
    \* "logged" (the key "index" holds logIndex).
    logFile, logIndex,
    \* The source: documents Base..frontier-1 exist, except the reserved ID.
    base, frontier,
    \* The updating process: where it is, and the package variables of xkcd.
    bpc, Index, i, URL, IndexMap, DataMap,
    \* History of the runs: how many started, where the current or last one
    \* started fetching, the highest ID it processed (0: none), the store it
    \* found, how it ended and at which step.
    runs, startID, lastOK, pre, result, stage,
    \* The number the run's error message gives as "http responses
    \* processed", as a one-element sequence (empty: no such message).
    reported,
    \* The searching process: where it is, the query's terms, the map built
    \* by getRefs, the records searchIndex prints, and the number of runs
    \* started when getRefs read the index, and whether a run was under way
    \* at that moment ("busy") or not ("idle").
    rpc, query, resultMap, results, rEpoch, rAt,
    \* One call of intersection: its arguments and what it returned
    \* (called: a call was made).
    callS1, callS2, callOut,
    \* One encoding round: a list of IDs, the bytes Istobs packs it into, the
    \* list Bstois reads back, and how far the round is.
    encS, encBs, encBack, epc

storeVars == << mainBucket, mainKV, dataBucket, dataKV, logFile, logIndex >>
worldVars == << base, frontier >>
memVars == << Index, i, URL, IndexMap, DataMap >>
histVars == << runs, startID, lastOK, pre, result, stage, reported >>
readerVars == << rpc, query, resultMap, results, rEpoch, rAt >>
encVars == << encS, encBs, encBack, epc >>
callVars == << callS1, callS2, callOut, encVars >>
vars == << storeVars, worldVars, bpc, memVars, histVars, readerVars, callVars >>

\* The persisted store as one value.
Store == [mainBucket |-> mainBucket, mainKV |-> mainKV,
          dataBucket |-> dataBucket, dataKV |-> dataKV,
          logFile |-> logFile, logIndex |-> logIndex]

\* var IndexMap = make(map[string][]int); a term with no key maps to nil.
EmptyIndexMap == [t \in Terms |-> << >>]

\* var DataMap = make(map[int]LogData)
EmptyDataMap == << >>

\* ------------------------------------------------------------ the builder

appendIfUnique(s, id) == IF id \in Range(s) THEN s ELSE Append(s, id)

\* for s.Scan() { IndexMap[s.Text()] = appendIfUnique(IndexMap[s.Text()], Index) }
\* Words outside Terms are not followed.
RECURSIVE mapTerms(_, _, _)
mapTerms(m, words, id) ==
    IF words = << >> THEN m
    ELSE LET w == Head(words)
             m1 == IF w \in Terms
                   THEN [m EXCEPT ![w] = appendIfUnique(m[w], id)]
                   ELSE m
         IN mapTerms(m1, Tail(words), id)

\* dataMapFields.Link = URL; DataMap[i] = *dataMapFields
mapData(m, id, k, url) ==
    (k :> [Unmarshal(id) EXCEPT !.Link = url]) @@ m

\* proto.Marshal of the LogDataStruct built field by field from d.
convToProto(d) == [Num |-> d.Num, Link |-> d.Link, Text |-> d.Text]

\* The encoding of a message whose fields are all default: no bytes at all,
\* which is also what b.Get returns for a missing key.
NilBytes == [Num |-> 0, Link |-> 0, Text |-> << >>]

\* for k, v := range m { new := append(b.Get(k), Istobs(v)...); b.Put(k, new) }
storeIndexMap(kv, m) ==
    [t \in Terms |-> IF m[t] # << >> THEN kv[t] \o Istobs(m[t]) ELSE kv[t]]

\* for k, v := range m { b.Put(Itob(k), convToProto(v)) }
\* storeMapDataSkips commits without a Put.
storeMapDataSkips(kv, m) == kv

storeMapData(kv, m) ==
    LET keys == { Itob(k) : k \in DOMAIN m }
    IN [key \in (DOMAIN kv) \cup keys |->
          IF key \in keys
          THEN convToProto(m[CHOOSE k \in DOMAIN m : Itob(k) = key])
          ELSE kv[key]]

\* The process ends: GetInfo returned (res "ok" or "failed") or the process
\* died in a panic or in log.Fatalf (res "crashed").  stg is the step it
\* ended at.  The package variables go with the process.
EndRun(res, stg) ==
    /\ bpc' = "idle"
    /\ result' = res
    /\ stage' = stg
    /\ Index' = 0 /\ i' = 0 /\ URL' = 0
    /\ IndexMap' = EmptyIndexMap
    /\ DataMap' = EmptyDataMap

\* GetIndex: the Index a run starts with, for a log.db that is absent or
\* holds the key "index".
StartIndexAlwaysOne(lf, li) == 1

StartIndex(lf, li) == IF lf = "absent" THEN 1 ELSE Btoi(li)

\* resp.StatusCode == http.StatusNotFound: the source has no document id.
\* It has none past the frontier, and none at the reserved ID, which is
\* the address of its error page.
NotFound(id) == id >= frontier \/ id = ReservedID

\* if i == 404: the test that keeps an ID from being fetched.
IsReservedNever(id) == FALSE

IsReserved(id) == id = ReservedID

\* updateIndex: xkcd.GetIndex(), then GetInfo up to the loop.
GetIndex ==
    /\ bpc = "idle"
    /\ runs < MaxRuns
    /\ runs' = runs + 1
    /\ pre' = Store
    /\ lastOK' = 0
    /\ reported' = << >>
    /\ UNCHANGED << storeVars, worldVars, readerVars, callVars >>
    /\ IF logFile = "empty"
       THEN \* tx.Bucket("log") is nil: b.Get panics
            /\ startID' = 0
            /\ EndRun("crashed", "start")
       ELSE LET c == StartIndex(logFile, logIndex)
            IN /\ startID' = c
               /\ \/ \* os.OpenFile("comic_log.txt") fails
                     EndRun("failed", "start")
                  \/ /\ bpc' = "fetch"
                     /\ result' = "running"
                     /\ stage' = "fetch"
                     /\ Index' = c /\ i' = c /\ URL' = 0
                     /\ IndexMap' = EmptyIndexMap
                     /\ DataMap' = EmptyDataMap

\* if i == 404 { Index++; continue }
SkipReserved ==
    /\ bpc = "fetch"
    /\ i > 0
    /\ IsReserved(i)
    /\ Index' = Index + 1
    /\ i' = i + 1
    /\ UNCHANGED << storeVars, worldVars, bpc, URL, IndexMap, DataMap,
                    histVars, readerVars, callVars >>

\* FetchOK with the document's postings and record stored at once.
FetchOKStoresNow ==
    /\ bpc = "fetch"
    /\ i > 0
    /\ ~IsReserved(i)
    /\ ~NotFound(i)
    /\ URL' = i
    /\ IndexMap' = mapTerms(IndexMap, PayloadTerms(i), Index)
    /\ DataMap' = mapData(DataMap, i, Index, i)
    /\ mainBucket' = TRUE
    /\ mainKV' = storeIndexMap(mainKV, mapTerms(EmptyIndexMap, PayloadTerms(i), Index))
    /\ dataBucket' = TRUE
    /\ dataKV' = storeMapData(dataKV, mapData(EmptyDataMap, i, Index, i))
    /\ Index' = Index + 1
    /\ i' = i + 1
    /\ lastOK' = i
    /\ UNCHANGED << logFile, logIndex, worldVars, bpc, readerVars, callVars,
                    runs, startID, pre, result, stage, reported >>

\* The document exists and its payload decodes: mapTerms, mapData,
\* writeOutput, Index++.
FetchOK ==
    /\ bpc = "fetch"
    /\ i > 0
    /\ ~IsReserved(i)
    /\ ~NotFound(i)
    /\ URL' = i
    /\ IndexMap' = mapTerms(IndexMap, PayloadTerms(i), Index)
    /\ DataMap' = mapData(DataMap, i, Index, i)
    /\ Index' = Index + 1
    /\ i' = i + 1
    /\ lastOK' = i
    /\ UNCHANGED << storeVars, worldVars, bpc, readerVars, callVars,
                    runs, startID, pre, result, stage, reported >>

\* LoopExit with the loop going on to the next ID instead of ending.
LoopExitContinues ==
    /\ bpc = "fetch"
    /\ i > 0
    /\ ~IsReserved(i)
    /\ NotFound(i)
    /\ i' = i + 1
    /\ UNCHANGED << storeVars, worldVars, bpc, Index, URL, IndexMap, DataMap,
                    histVars, readerVars, callVars >>

\* The loop ends and the flush begins: the fetch of i answers NotFound
\* (break), or the loop condition i > 0 fails.
LoopExit ==
    /\ bpc = "fetch"
    /\ IF i > 0 THEN ~IsReserved(i) /\ NotFound(i) ELSE TRUE
    /\ bpc' = "storeIndexMap"
    /\ stage' = "postings"
    /\ UNCHANGED << storeVars, worldVars, memVars, readerVars, callVars,
                    runs, startID, lastOK, pre, result, reported >>

\* FetchFail with the index logged on the way out.
FetchFailLogsIndex ==
    /\ bpc = "fetch"
    /\ i > 0
    /\ ~IsReserved(i)
    /\ logFile' = "logged"
    /\ logIndex' = Itob(Index)
    /\ reported' = << Index >>
    /\ EndRun("failed", "fetch")
    /\ UNCHANGED << mainBucket, mainKV, dataBucket, dataKV, worldVars,
                    readerVars, callVars, runs, startID, lastOK, pre >>

\* The fetch fails, or the payload does not decode.
FetchFail ==
    /\ bpc = "fetch"
    /\ i > 0
    /\ ~IsReserved(i)
    /\ UNCHANGED << storeVars, worldVars, readerVars, callVars,
                    runs, startID, lastOK, pre >>
    /\ \/ \* http.Get returns an error and a nil response: resp.Body.Close() panics
          /\ reported' = << >>
          /\ EndRun("crashed", "fetch")
       \/ \* http.Get returns an error with a response, or a status that is
          \* neither OK nor NotFound: return fmt.Errorf("request failed: %s\n
          \* http responses processed: %v", ..., Index)
          /\ reported' = << Index >>
          /\ EndRun("failed", "fetch")
       \/ \* the payload is not JSON: mapData dereferences the nil *LogData
          /\ ~NotFound(i)
          /\ reported' = << >>
          /\ EndRun("crashed", "decode")
       \/ \* the payload is JSON of the wrong shape: writeOutput returns the
          \* error and GetInfo returns "Write to comic_log.txt failed"
          /\ ~NotFound(i)
          /\ reported' = << >>
          /\ EndRun("failed", "decode")

\* sErr := storeIndexMap(IndexMap)
StoreIndexMap ==
    /\ bpc = "storeIndexMap"
    /\ UNCHANGED << worldVars, readerVars, callVars, runs, startID, lastOK, pre,
                    reported, dataBucket, dataKV, logFile, logIndex >>
    /\ \/ \* the update transaction commits
          /\ mainBucket' = TRUE
          /\ mainKV' = storeIndexMap(mainKV, IndexMap)
          /\ bpc' = "storeMapData"
          /\ stage' = "documents"
          /\ UNCHANGED << memVars, result >>
       \/ \* db.Update returns an error: the transaction is rolled back
          /\ UNCHANGED << mainBucket, mainKV >>
          /\ EndRun("failed", "postings")
       \/ \* bolt.Open fails: log.Fatalf
          /\ UNCHANGED << mainBucket, mainKV >>
          /\ EndRun("crashed", "postings")

\* sErr = storeMapData(DataMap)
StoreMapData ==
    /\ bpc = "storeMapData"
    /\ UNCHANGED << worldVars, readerVars, callVars, runs, startID, lastOK, pre,
                    reported, mainBucket, mainKV, logFile, logIndex >>
    /\ \/ /\ dataBucket' = TRUE
          /\ dataKV' = storeMapData(dataKV, DataMap)
          /\ bpc' = "logIndexVar"
          /\ stage' = "cursor"
          /\ UNCHANGED << memVars, result >>
       \/ /\ UNCHANGED << dataBucket, dataKV >>
          /\ EndRun("failed", "documents")
       \/ /\ UNCHANGED << dataBucket, dataKV >>
          /\ EndRun("crashed", "documents")

\* lErr := logIndexVar(Index); return nil
LogIndexVar ==
    /\ bpc = "logIndexVar"
    /\ UNCHANGED << worldVars, readerVars, callVars, runs, startID, lastOK, pre,
                    reported, mainBucket, mainKV, dataBucket, dataKV >>
    /\ \/ /\ logFile' = "logged"
          /\ logIndex' = Itob(Index)
          /\ EndRun("ok", "end")
       \/ \* db.Update fails after bolt.Open created the file
          /\ logFile' = IF logFile = "absent" THEN "empty" ELSE logFile
          /\ UNCHANGED logIndex
          /\ EndRun("failed", "cursor")
       \/ /\ UNCHANGED << logFile, logIndex >>
          /\ EndRun("crashed", "cursor")

\* A new document appears at the source; the reserved ID never resolves.
Publish ==
    /\ frontier < base + Span
    /\ frontier' = IF frontier + 1 = ReservedID THEN frontier + 2 ELSE frontier + 1
    /\ UNCHANGED << storeVars, base, bpc, memVars, histVars, readerVars, callVars >>

\* ------------------------------------------------------- the query engine

\* intersection(s1, s2): the scan of s2 from position k on, c collected so
\* far.  panic: s1[len(s1)-1] is evaluated with s1 empty.
RECURSIVE scan(_, _, _, _)
scan(s1, s2, k, c) ==
    IF k > Len(s2) THEN [panic |-> FALSE, c |-> c]
    ELSE IF Len(s1) = 0 THEN [panic |-> TRUE, c |-> c]
    ELSE IF s2[k] > s1[Len(s1)] THEN [panic |-> FALSE, c |-> c]
    ELSE IF s2[k] \in Range(s1) THEN scan(s1, s2, k + 1, Append(c, s2[k]))
    ELSE scan(s1, s2, k + 1, c)

intersection(s1, s2) == scan(s1, s2, 1, << >>)

\* sortMap: the (term, list, length) tuples in an order sort.Slice can
\* leave them in.  The map is ranged over in any order and the sort is not
\* stable, so every order that is ascending in Len is possible.
sortMap(m) ==
    LET n == Cardinality(DOMAIN m)
        perms == { p \in [1..n -> DOMAIN m] : \A t \in DOMAIN m : \E k \in 1..n : p[k] = t }
    IN { [k \in 1..n |-> [Key |-> p[k], Value |-> m[p[k]], Len |-> Len(m[p[k]])]] :
            p \in { q \in perms : \A k \in 1..(n - 1) : Len(m[q[k]]) <= Len(m[q[k + 1]]) } }

\* common := intersection(s1, s2); for _, v := range sorted[2:] { common = intersection(common, v.Value) }
RECURSIVE fold(_, _, _)
fold(common, sorted, k) ==
    IF k > Len(sorted) THEN [panic |-> FALSE, c |-> common]
    ELSE LET r == intersection(common, sorted[k].Value)
         IN IF r.panic THEN r ELSE fold(r.c, sorted, k + 1)

\* The IDs searchIndex resolves, for the map built by getRefs and one
\* outcome of sortMap (sorted is not used when the map has one term).
searchCommon(m, sorted) ==
    IF Cardinality(DOMAIN m) = 1
    THEN [panic |-> FALSE, c |-> m[CHOOSE t \in DOMAIN m : TRUE]]
    ELSE LET r == intersection(sorted[1].Value, sorted[2].Value)
         IN IF r.panic THEN r ELSE fold(r.c, sorted, 3)

\* decodeProto: the LogData of the stored bytes.
decodeProto(pb) == [Num |-> pb.Num, Link |-> pb.Link, Text |-> pb.Text]

\* b.Get(key) in the "data" bucket.
dataGet(kv, key) == IF key \in DOMAIN kv THEN kv[key] ELSE NilBytes

\* returnData: one record per ID of c, in the order of c.
returnData(kv, c) == [k \in 1..Len(c) |-> decodeProto(dataGet(kv, Itob(c[k])))]

\* The line reader.ReadString('\n') returns, as a sequence of symbols: a
\* space, the newline, or a word (a maximal run of other characters, so
\* two words never touch).
IsWord(c) == c \in Terms

Lines ==
    LET Bodies == UNION { [1..n -> Terms \cup {" "}] : n \in 0..MaxText }
    IN { body \o << "\n" >> :
           body \in { b \in Bodies :
                        \A k \in 1..(Len(b) - 1) : ~(IsWord(b[k]) /\ IsWord(b[k + 1])) } }

\* strings.Split(text, " "): the pieces between the spaces, empty pieces
\* included; cur is the piece being read and out the pieces read.
RECURSIVE SplitFrom(_, _, _)
SplitFrom(text, cur, out) ==
    IF text = << >> THEN Append(out, cur)
    ELSE IF Head(text) = " " THEN SplitFrom(Tail(text), << >>, Append(out, cur))
    ELSE SplitFrom(Tail(text), Append(cur, Head(text)), out)

Split(text) == SplitFrom(text, << >>, << >>)

\* strings.TrimSpace(v): v without its leading and trailing white space.
RECURSIVE TrimSpace(_)
TrimSpace(v) ==
    IF v = << >> THEN v
    ELSE IF ~IsWord(Head(v)) THEN TrimSpace(Tail(v))
    ELSE IF ~IsWord(v[Len(v)]) THEN TrimSpace(SubSeq(v, 1, Len(v) - 1))
    ELSE v

\* []byte(v): the key getRefs looks up for a trimmed piece, which holds one
\* word or nothing.
KeyOf(v) == IF v = << >> THEN "" ELSE v[1]

\* The keys of the map getRefs returns for a line: one per distinct
\* trimmed piece.
QueryKeys(text) ==
    LET q == Split(text)
    IN { KeyOf(TrimSpace(q[k])) : k \in 1..Len(q) }

Queries == { QueryKeys(text) : text \in Lines }

\* b.Get(key) in the "main" bucket: no bytes for a key that is not stored.
\* mainGetSeeks gives the value of the key the cursor's seek stops at.
mainGetSeeks(kv, key) == IF key \in DOMAIN kv THEN kv[key] ELSE kv["comic"]

mainGet(kv, key) == IF key \in DOMAIN kv THEN kv[key] ELSE << >>

\* searchIndex up to the return of getRefs: the lists of the query's terms,
\* read with the database open (and locked) throughout.
GetRefs ==
    /\ rpc = "idle"
    /\ \E q \in Queries :
         /\ query' = q
         /\ IF mainBucket
            THEN /\ resultMap' = [t \in q |-> Bstois(mainGet(mainKV, t))]
                 /\ rpc' = "refs"
            ELSE \* tx.Bucket("main") is nil: b.Get panics
                 /\ resultMap' = << >>
                 /\ rpc' = "panic"
    /\ rEpoch' = runs
    /\ rAt' = IF bpc = "idle" THEN "idle" ELSE "busy"
    /\ UNCHANGED << storeVars, worldVars, bpc, memVars, histVars, results, callVars >>

\* The rest of searchIndex: sortMap, the intersections, returnData.
Search ==
    /\ rpc = "refs"
    /\ \E sorted \in sortMap(resultMap) :
         LET r == searchCommon(resultMap, sorted)
         IN IF r.panic
            THEN \* index out of range in intersection
                 /\ rpc' = "panic"
                 /\ results' = << >>
            ELSE IF r.c # << >> /\ ~dataBucket
            THEN \* tx.Bucket("data") is nil: b.Get panics
                 /\ rpc' = "panic"
                 /\ results' = << >>
            ELSE /\ rpc' = "done"
                 /\ results' = returnData(dataKV, r.c)
    /\ UNCHANGED << storeVars, worldVars, bpc, memVars, histVars,
                    query, resultMap, rEpoch, rAt, callVars >>

\* The searching process is over; the next query is a new process.
ReaderExit ==
    /\ rpc \in {"done", "panic"}
    /\ rpc' = "idle"
    /\ query' = {}
    /\ resultMap' = << >>
    /\ results' = << >>
    /\ rEpoch' = 0
    /\ rAt' = "idle"
    /\ UNCHANGED << storeVars, worldVars, bpc, memVars, histVars, callVars >>

\* ------------------------------------------------------- the specification

Init ==
    /\ base \in Bases
    /\ frontier \in { f \in base..(base + Span) : f # ReservedID }
    /\ IF base = 1
       THEN \* nothing on disk
            /\ mainBucket = FALSE /\ dataBucket = FALSE
            /\ logFile = "absent" /\ logIndex = << >>
       ELSE \* earlier runs stored the documents below base and logged base
            /\ mainBucket = TRUE /\ dataBucket = TRUE
            /\ logFile = "logged" /\ logIndex = Itob(base)
    /\ mainKV = [t \in Terms |-> << >>]
    /\ dataKV = << >>
    /\ bpc = "idle"
    /\ Index = 0 /\ i = 0 /\ URL = 0
    /\ IndexMap = EmptyIndexMap
    /\ DataMap = EmptyDataMap
    /\ runs = 0 /\ startID = 0 /\ lastOK = 0
    /\ pre = Store
    /\ result = "none" /\ stage = "none" /\ reported = << >>
    /\ rpc = "idle" /\ query = {} /\ resultMap = << >> /\ results = << >>
    /\ rEpoch = 0 /\ rAt = "idle"
    /\ callS1 = << >> /\ callS2 = << >>
    /\ callOut = [called |-> FALSE, panic |-> FALSE, c |-> << >>]
    /\ encS = << >> /\ encBs = << >> /\ encBack = << >> /\ epc = "idle"

Next ==
    \/ GetIndex
    \/ SkipReserved
    \/ FetchOK
    \/ LoopExit
    \/ FetchFail
    \/ StoreIndexMap
    \/ StoreMapData
    \/ LogIndexVar
    \/ Publish
    \/ GetRefs
    \/ Search
    \/ ReaderExit

Spec == Init /\ [][Next]_vars

\* ------------------------------------- the query engine on drawn lists

\* The ascending sequence of the elements of a set of IDs.
RECURSIVE SortedSeq(_)
SortedSeq(S) ==
    IF S = {} THEN << >>
    ELSE LET m == CHOOSE x \in S : \A y \in S : x <= y
         IN << m >> \o SortedSeq(S \ {m})

\* Every ascending duplicate-free list of IDs up to MaxDoc.
AscLists == { SortedSeq(S) : S \in SUBSET (1..MaxDoc) }

TermOrder == << "comic", "boy", "zzz" >>

\* A store at rest after successful runs over a source with documents
\* 1..MaxDoc, for every way the terms can be spread over the documents.
InitQ ==
    /\ base = 1 /\ frontier = MaxDoc + 1
    /\ mainBucket = TRUE /\ dataBucket = TRUE
    /\ \E lists \in [Terms -> AscLists] :
         /\ mainKV = [t \in Terms |-> Istobs(lists[t])]
         /\ dataKV = storeMapData(<< >>,
                [id \in 1..MaxDoc |->
                   LET In(t) == id \in Range(lists[t])
                   IN [Num |-> id, Link |-> id, Text |-> SelectSeq(TermOrder, In)]])
    /\ logFile = "logged" /\ logIndex = Itob(MaxDoc + 1)
    /\ bpc = "idle"
    /\ Index = 0 /\ i = 0 /\ URL = 0
    /\ IndexMap = EmptyIndexMap
    /\ DataMap = EmptyDataMap
    /\ runs = 0 /\ startID = 0 /\ lastOK = 0
    /\ pre = Store
    /\ result = "none" /\ stage = "none" /\ reported = << >>
    /\ rpc = "idle" /\ query = {} /\ resultMap = << >> /\ results = << >>
    /\ rEpoch = 0 /\ rAt = "idle"
    /\ callS1 = << >> /\ callS2 = << >>
    /\ callOut = [called |-> FALSE, panic |-> FALSE, c |-> << >>]
    /\ encS = << >> /\ encBs = << >> /\ encBack = << >> /\ epc = "idle"

\* One call intersection(s1, s2) on the lists of two terms.
CallIntersection ==
    /\ \E a, b \in Terms :
         LET l1 == Bstois(mainKV[a])
             l2 == Bstois(mainKV[b])
             r == intersection(l1, l2)
         IN /\ callS1' = l1
            /\ callS2' = l2
            /\ callOut' = [called |-> TRUE, panic |-> r.panic, c |-> r.c]
    /\ UNCHANGED << storeVars, worldVars, bpc, memVars, histVars, readerVars, encVars >>

NextQ ==
    \/ GetRefs
    \/ Search
    \/ ReaderExit
    \/ CallIntersection

SpecQ == InitQ /\ [][NextQ]_vars

\* -------------------------------------------------- the builder on its own

\* One iteration of GetInfo's loop: it is over when the fetch returns.
LoopStep == SkipReserved \/ FetchOK \/ LoopExit \/ FetchFail

NextB ==
    \/ GetIndex
    \/ SkipReserved
    \/ FetchOK
    \/ LoopExit
    \/ FetchFail
    \/ StoreIndexMap
    \/ StoreMapData
    \/ LogIndexVar
    \/ Publish

\* The updating process with every fetch returning: http.Get blocks the
\* loop until it has an answer, and an answer lets the loop go on.
SpecB == Init /\ [][NextB]_vars /\ WF_vars(LoopStep)

\* ------------------------------------------------------ the two encoders

\* IDs at the edges of the two bytes, and the reserved ID.
IDSamples == {0, 1, 255, 256, ReservedID, Uint16 - 1}

\* Every list of at most MaxLen sampled IDs, in any order, repeats included.
IDLists == UNION { [1..n -> IDSamples] : n \in 0..MaxLen }

InitE ==
    /\ base = 1 /\ frontier = 1
    /\ mainBucket = FALSE /\ dataBucket = FALSE
    /\ logFile = "absent" /\ logIndex = << >>
    /\ mainKV = [t \in Terms |-> << >>]
    /\ dataKV = << >>
    /\ bpc = "idle"
    /\ Index = 0 /\ i = 0 /\ URL = 0
    /\ IndexMap = EmptyIndexMap
    /\ DataMap = EmptyDataMap
    /\ runs = 0 /\ startID = 0 /\ lastOK = 0
    /\ pre = Store
    /\ result = "none" /\ stage = "none" /\ reported = << >>
    /\ rpc = "idle" /\ query = {} /\ resultMap = << >> /\ results = << >>
    /\ rEpoch = 0 /\ rAt = "idle"
    /\ callS1 = << >> /\ callS2 = << >>
    /\ callOut = [called |-> FALSE, panic |-> FALSE, c |-> << >>]
    /\ encS \in IDLists
    /\ encBs = << >> /\ encBack = << >> /\ epc = "idle"

\* bs := Istobs(s)
Encode ==
    /\ epc = "idle"
    /\ encBs' = Istobs(encS)
    /\ epc' = "packed"
    /\ UNCHANGED << storeVars, worldVars, bpc, memVars, histVars, readerVars,
                    callS1, callS2, callOut, encS, encBack >>

\* is := Bstois(bs)
Decode ==
    /\ epc = "packed"
    /\ encBack' = Bstois(encBs)
    /\ epc' = "read"
    /\ UNCHANGED << storeVars, worldVars, bpc, memVars, histVars, readerVars,
                    callS1, callS2, callOut, encS, encBs >>

NextE ==
    \/ Encode
    \/ Decode

SpecE == InitE /\ [][NextE]_vars

\* ------------------------------------------------------------ properties

StrictlyAscending(s) == \A k \in 1..(Len(s) - 1) : s[k] < s[k + 1]

\* The persisted cursor of a store, 0 when none is persisted.
Cursor(st) == IF st.logFile = "logged" THEN Btoi(st.logIndex) ELSE 0

\* The three logical tables of a store.
Tables(st) == [postings |-> [t \in Terms |-> Bstois(st.mainKV[t])],
               documents |-> st.dataKV,
               cursor |-> Cursor(st)]

\* The last run ended in its flush without completing it.
FlushFailed == bpc = "idle" /\ stage \in {"postings", "documents", "cursor"}

\* The last run ended in its loop, on a failed fetch or a payload that
\* does not decode.
Aborted == bpc = "idle" /\ stage \in {"fetch", "decode"}

\* C1: a run whose flush fails at any of its three steps is reported as
\* failed and leaves postings, documents and cursor as they were before the
\* run.
C1_FlushFailureLeavesTables ==
    FlushFailed => /\ result \in {"failed", "crashed"}
                   /\ Tables(Store) = Tables(pre)

\* C2: in every reachable state every term's persisted postings list is
\* strictly ascending, hence free of duplicates.
C2_PostingsAscending ==
    \A t \in Terms : StrictlyAscending(Bstois(mainKV[t]))

\* C3: the merge of a run's postings appends to a term's persisted list
\* only the IDs that are not in it yet, and storing a document again leaves
\* the value stored for its ID as it was.
C3_IdempotentReprocess ==
    [][ /\ (bpc = "storeIndexMap" /\ bpc' = "storeMapData") =>
             \A t \in Terms :
                LET old == Bstois(mainKV[t])
                    Fresh(id) == id \notin Range(old)
                IN Bstois(mainKV'[t]) = old \o SelectSeq(IndexMap[t], Fresh)
        /\ (bpc = "storeMapData" /\ bpc' = "logIndexVar") =>
             \A key \in DOMAIN dataKV : dataKV'[key] = dataKV[key]
      ]_vars

\* The first ID at or after id that a run fetches.
NextFetched(id) == IF id = ReservedID THEN id + 1 ELSE id

\* The ID a run starts at, by the cursor of the store it found.
CursorOrOne(st) == IF st.logFile = "logged" THEN Btoi(st.logIndex) ELSE 1

\* C4 as stated: a run starts fetching at the persisted cursor (1 when none
\* is persisted) and a successful run persists lastProcessedID + 1.
C4_CursorIsLastPlusOne ==
    /\ (bpc = "fetch" /\ lastOK = 0) => i = NextFetched(CursorOrOne(pre))
    /\ (bpc = "idle" /\ result = "ok" /\ lastOK > 0) =>
          Cursor(Store) = lastOK + 1

\* C4 as amended: a run that starts fetching starts at the persisted cursor
\* (1 when log.db is absent); a successful run has stored every document
\* from there up to the ID whose fetch answered NotFound, the reserved ID
\* excepted, and persists that ID as the cursor: lastProcessedID + 1, or
\* lastProcessedID + 2 when lastProcessedID + 1 is the reserved ID, or the
\* starting ID when the run processed no document.  From empty storage
\* with documents 1 and 2, the run stores 1 and 2 and the cursor becomes 3.
C4_Resume ==
    /\ (bpc = "fetch" /\ lastOK = 0) => i = NextFetched(CursorOrOne(pre))
    /\ (bpc = "idle" /\ result = "ok") =>
          LET c == CursorOrOne(pre)
          IN /\ Cursor(Store) =
                  NextFetched(IF lastOK > 0 THEN lastOK + 1 ELSE c)
             /\ \A id \in c..(Cursor(Store) - 1) :
                  id # ReservedID =>
                     /\ Itob(id) \in DOMAIN dataKV
                     /\ dataKV[Itob(id)].Num = id
                     /\ id <= lastOK
             /\ lastOK > 0 => Itob(lastOK) \in DOMAIN dataKV
    /\ (bpc = "idle" /\ result = "ok" /\ pre.logFile = "absent" /\ lastOK = 2) =>
          /\ DOMAIN dataKV = {Itob(1), Itob(2)}
          /\ Cursor(Store) = 3

\* A successful run whose last document is the one just before the
\* reserved ID.
C4_Witness ==
    /\ bpc = "idle" /\ result = "ok"
    /\ lastOK = ReservedID - 1
    /\ Cursor(Store) = ReservedID + 1

\* C5: a run that ends on a failed fetch or on a payload that does not
\* decode has persisted nothing, and the next run starts fetching at the ID
\* the aborted run started at.
C5_AbortLeavesStore ==
    /\ [](Aborted => /\ result \in {"failed", "crashed"}
                     /\ Store = pre
                     /\ Tables(Store) = Tables(pre))
    /\ [][(Aborted /\ bpc' = "fetch") => (Index' = startID /\ i' = startID)]_vars

\* A run aborted after it had processed a document.
C5_Witness ==
    /\ Aborted
    /\ lastOK > 0
    /\ result \in {"failed", "crashed"}

\* getRefs returned and searchIndex ran to its end or to a panic.
Searched == rpc \in {"done", "panic"} /\ DOMAIN resultMap = query

\* The IDs of the records searchIndex printed.
ResultIDs == [k \in 1..Len(results) |-> results[k].Num]

\* What a search of the store st, read at one moment, can give for the
\* reader's query: its lists and its records.
Observes(st) ==
    /\ st.mainBucket
    /\ resultMap = [t \in query |-> Bstois(mainGet(st.mainKV, t))]
    /\ \E sorted \in sortMap(resultMap) :
         LET r == searchCommon(resultMap, sorted)
         IN /\ ~r.panic
            /\ r.c # << >> => st.dataBucket
            /\ results = returnData(st.dataKV, r.c)

\* C6: a search that reads the store while a run is in progress, once the
\* run has succeeded, has seen the postings and documents of the store
\* before the run or those of the store after it, never a mix.
C6_ReaderSeesOneState ==
    (/\ rpc = "done" /\ rAt # "idle" /\ rEpoch = runs
     /\ bpc = "idle" /\ result = "ok")
       => (Observes(pre) \/ Observes(Store))

\* C7: a search whose query has a term with no stored list ends normally
\* with an empty result, whatever the other terms' lists are.
C7_UnknownTermGivesEmpty ==
    (Searched /\ \E t \in query : resultMap[t] = << >>)
       => (rpc = "done" /\ results = << >>)

\* C8: for ascending duplicate-free lists s1 and s2, empty ones included,
\* intersection(s1, s2) returns the common elements in ascending order, and
\* intersection(s2, s1) has the same elements.
C8_IntersectionCorrect ==
    callOut.called =>
       /\ ~callOut.panic
       /\ Range(callOut.c) = Range(callS1) \cap Range(callS2)
       /\ StrictlyAscending(callOut.c)
       /\ LET rev == intersection(callS2, callS1)
          IN ~rev.panic /\ Range(rev.c) = Range(callOut.c)

\* C9: a search with two or more distinct terms, each with a stored list,
\* ends normally and returns the IDs that are in every term's list, in
\* ascending order, whatever order sortMap leaves lists of equal length in
\* and also when an intermediate intersection is empty.
C9_FoldGivesCommonIDs ==
    (/\ Searched /\ Cardinality(query) >= 2
     /\ \A t \in query : resultMap[t] # << >>)
       => /\ rpc = "done"
          /\ ResultIDs = SortedSeq({ id \in 1..MaxDoc :
                                       \A t \in query : id \in Range(resultMap[t]) })

\* C10: a search with one term, of a store at rest after a successful run,
\* returns one document per ID of the term's stored list, in ascending ID
\* order.
C10_SingleTermInOrder ==
    (/\ Searched /\ Cardinality(query) = 1
     /\ rAt = "idle" /\ rEpoch = runs /\ bpc = "idle" /\ result = "ok")
       => /\ rpc = "done"
          /\ \A t \in query : ResultIDs = Bstois(mainGet(mainKV, t))
          /\ StrictlyAscending(ResultIDs)

\* A line without a word: spaces at most.
Blank(text) == \A k \in 1..Len(text) : ~IsWord(text[k])

\* The keys getRefs builds for the blank lines.
BlankQueries == { QueryKeys(text) : text \in { l \in Lines : Blank(l) } }

\* C11: a blank query, put to a store in which storeIndexMap has committed
\* at least once, gets past getRefs, ends normally and prints no record.
C11_BlankQueryGivesNothing ==
    /\ [][(/\ rpc = "idle" /\ rpc' # "idle"
           /\ query' \in BlankQueries /\ mainBucket) => rpc' = "refs"]_vars
    /\ []((Searched /\ query \in BlankQueries) =>
             (rpc = "done" /\ results = << >>))

\* A blank query answered by a store at rest that holds postings.
C11_Witness ==
    /\ rpc = "done" /\ query \in BlankQueries /\ results = << >>
    /\ rAt = "idle" /\ rEpoch = runs /\ bpc = "idle" /\ result = "ok"
    /\ mainKV["comic"] # << >>

\* C12: the reserved ID is no key of the "data" bucket and is in no stored
\* list, no run persists it as the cursor or ends its loop at it, and the
\* step taken at the reserved ID leaves the run in its loop with nothing
\* processed.
C12_ReservedNeverStored ==
    /\ [](/\ Itob(ReservedID) \notin DOMAIN dataKV
          /\ \A t \in Terms : ReservedID \notin Range(Bstois(mainKV[t]))
          /\ Cursor(Store) # ReservedID
          /\ bpc \in {"storeIndexMap", "storeMapData", "logIndexVar"} =>
                Index # ReservedID)
    /\ [][(bpc = "fetch" /\ i = ReservedID) =>
             /\ bpc' = "fetch"
             /\ lastOK' = lastOK
             /\ i' \in {ReservedID, ReservedID + 1}]_vars

\* A run that processed the ID before the reserved one and is in its loop
\* at the ID after it.
C12_Witness ==
    /\ bpc = "fetch"
    /\ startID = ReservedID - 1 /\ lastOK = ReservedID - 1
    /\ i = ReservedID + 1 /\ Index = ReservedID + 1

\* C13: a run that finds no persisted cursor starts at ID 1, also when
\* log.db was left without its bucket by a failed cursor write.
C13_NoCursorStartsAtOne ==
    (runs > 0 /\ pre.logFile # "logged") =>
       /\ startID = 1
       /\ ~(result = "crashed" /\ stage = "start")

\* C14: Istobs packs a list of IDs of 0..65535 into two bytes per ID, in
\* list order, Bstois reads the same list back, Btoi reads back what Itob
\* wrote, and no bytes read back as the empty list.
C14_EncodingRoundTrips ==
    /\ epc \in {"packed", "read"} =>
          /\ Len(encBs) = 2 * Len(encS)
          /\ \A k \in 1..Len(encBs) : encBs[k] \in 0..255
          /\ \A k \in 1..Len(encS) :
                /\ SubSeq(encBs, 2 * k - 1, 2 * k) = Itob(encS[k])
                /\ Btoi(Itob(encS[k])) = encS[k]
    /\ epc = "read" =>
          /\ encBack = encS
          /\ encBs = << >> => encBack = << >>

\* A list read back that holds the largest ID and one whose low byte is 0.
C14_Witness ==
    /\ epc = "read"
    /\ Len(encS) >= 2
    /\ encS[1] = Uint16 - 1
    /\ 256 \in Range(encS)
    /\ encBack = encS

\* The words of a line, in order.
Words(text) == SelectSeq(text, IsWord)

\* C15: a search of a store at rest, for a line that has words, ends as a
\* search for those words alone ends: leading, trailing and repeated spaces
\* add no term.
C15_ExtraSpacesAddNoTerm ==
    (/\ Searched
     /\ rAt = "idle" /\ rEpoch = runs /\ bpc = "idle" /\ result = "ok")
       => \A text \in Lines :
             (QueryKeys(text) = query /\ Words(text) # << >>) =>
                LET m == [t \in Range(Words(text)) |-> resultMap[t]]
                IN \E sorted \in sortMap(m) :
                      LET r == searchCommon(m, sorted)
                      IN IF r.panic THEN rpc = "panic"
                         ELSE /\ rpc = "done"
                              /\ results = returnData(dataKV, r.c)

\* C16: from the start of the loop until storeIndexMap is called the
\* persisted store is the one the run found.
C16_LoopLeavesStore ==
    bpc \in {"fetch", "storeIndexMap"} =>
       /\ Store = pre
       /\ Tables(Store) = Tables(pre)

\* A run in its loop with a document mapped in memory.
C16_Witness ==
    /\ bpc = "fetch"
    /\ lastOK > 0
    /\ IndexMap["comic"] # << >>
    /\ DOMAIN DataMap # {}
    /\ Store = pre

\* C17: when a fetch failure ends a run with a number in its message,
\* that number is the number of documents the run has processed, which is
\* the number of entries of DataMap.
C17_ReportsCountProcessed ==
    [][(bpc = "fetch" /\ bpc' = "idle" /\ reported' # << >>) =>
          reported'[1] = Cardinality(DOMAIN DataMap)]_vars

\* C18: a run in its loop has fetched no ID at which the source answers
\* NotFound; the loop ends for the flush only at such an ID, with
\* everything before it processed or reserved; it ends without a flush
\* only as a failed or crashed run; and it always ends.
C18_RunStopsAtFrontier ==
    /\ [](bpc = "fetch" /\ i > 0 =>
             \A id \in startID..(i - 1) : id = ReservedID \/ ~NotFound(id))
    /\ [][(bpc = "fetch" /\ bpc' = "storeIndexMap") =>
             (NotFound(i) /\ Index' = i /\ Store' = Store)]_vars
    /\ [][(bpc = "fetch" /\ bpc' = "idle") =>
             (result' \in {"failed", "crashed"} /\ Store' = Store)]_vars
    /\ (bpc = "fetch") ~> (bpc \in {"storeIndexMap", "idle"})

\* A loop that ended at the frontier after it processed a document.
C18_Witness ==
    /\ bpc = "storeIndexMap"
    /\ lastOK > 0
    /\ Index = frontier
    /\ Index = lastOK + 1

\* C19: every ID below the persisted cursor that the store follows, the
\* reserved ID apart, has its record in the "data" bucket and is in the
\* stored list of every term of that record.
C19_BelowCursorIsStored ==
    \A k \in base..(Cursor(Store) - 1) :
       k # ReservedID =>
          /\ Itob(k) \in DOMAIN dataKV
          /\ dataKV[Itob(k)].Num = k
          /\ \A t \in Terms :
                t \in Range(dataKV[Itob(k)].Text) => k \in Range(Bstois(mainKV[t]))

\* A second run whose flush failed, over a cursor the first run advanced.
C19_Witness ==
    /\ FlushFailed
    /\ runs = MaxRuns
    /\ Cursor(Store) > base
    /\ Cursor(pre) = Cursor(Store)

\* C20: in a store at rest every ID of a stored list is a key of the
\* "data" bucket.
C20_PostingsHaveDocuments ==
    bpc = "idle" =>
       \A t \in Terms :
          \A id \in Range(Bstois(mainKV[t])) : Itob(id) \in DOMAIN dataKV

\* C21: log.db holds one cursor value, at least 1; no step makes it
\* smaller; and a run that ends failed or crashed leaves log.db, file and
\* value, as the run found it.
C21_CursorMonotone ==
    /\ [](logFile = "logged" => (Len(logIndex) = 2 /\ Btoi(logIndex) >= 1))
    /\ [][Cursor([logFile |-> logFile', logIndex |-> logIndex']) >= Cursor(Store)]_vars
    /\ []((bpc = "idle" /\ result \in {"failed", "crashed"}) =>
             (logFile = pre.logFile /\ logIndex = pre.logIndex))

====
